---- MODULE Spec2Model ----
(***************************************************************************)
(* Monthly presence engine of the 3AM backend: the per-user monthly        *)
(* presence document (routes/presence.js, collection user_presence), the   *)
(* two copies of the compliance calculator, and the in-house overview      *)
(* aggregator (routes/inHousePresence.js, services/inHousePresenceService).*)
(***************************************************************************)
EXTENDS Integers, Sequences, FiniteSets, TLC

VARIABLES store, prior, clock, last, ov, calc, slow

vars == <<store, prior, clock, last, ov, calc, slow>>

(***************************************************************************)
(* Bounds of the model.                                                    *)
(***************************************************************************)
\* number of document writes in a behaviour of Spec
MaxClock == 3
\* number of document writes in a behaviour of the other specifications
MaxOvClock == 2
\* longest run of days fed to the calculators in SpecCalc
MaxCount == 11

(***************************************************************************)
(* JavaScript Date arithmetic, as used by the calculators.                 *)
(***************************************************************************)
\* getUTCDay() value of a Saturday
SATURDAY == 6

\* Date.UTC / new Date(y, m, d): a year in 0..99 means 1900 + year
JSYear(year) == IF year >= 0 /\ year <= 99 THEN 1900 + year ELSE year

\* day number (days since 1970-01-01) of the civil date y-m-d, m in 1..12
DaysFromCivil(y, m, d) ==
  LET yy  == IF m <= 2 THEN y - 1 ELSE y
      era == yy \div 400
      yoe == yy - era * 400
      mp  == IF m > 2 THEN m - 3 ELSE m + 9
      doy == (153 * mp + 2) \div 5 + d - 1
      doe == yoe * 365 + yoe \div 4 - yoe \div 100 + doy
  IN era * 146097 + doe - 719468

\* MakeDay: month and day overflow are carried into the year and the month
MakeDay(year, month, day) ==
  LET ym == JSYear(year) + (month \div 12)
      mn == month % 12
  IN DaysFromCivil(ym, mn + 1, 1) + day - 1

\* day of the month of a day number (Date.prototype.getDate)
DateFromDay(z) ==
  LET zz  == z + 719468
      era == zz \div 146097
      doe == zz - era * 146097
      yoe == (doe - doe \div 1460 + doe \div 36524 - doe \div 146096) \div 365
      doy == doe - (365 * yoe + yoe \div 4 - yoe \div 100)
      mp  == (5 * doy + 2) \div 153
  IN doy - (153 * mp + 2) \div 5 + 1

\* day of the week of a day number, 0 = Sunday (1970-01-01 was a Thursday)
WeekDay(z) == (z + 4) % 7

\* new Date(year, month + 1, 0).getDate()
daysInMonth(year, month) == DateFromDay(MakeDay(year, month + 1, 0))

\* the weekday read in a local time zone west of UTC: the day before
getLocalDay(year, month, day) == WeekDay(MakeDay(year, month, day) - 1)

\* new Date(Date.UTC(year, month, day)).getUTCDay()
getUTCDay(year, month, day) == WeekDay(MakeDay(year, month, day))

\* the padding is forgotten: String(n)
Pad2Unpadded(n) == ToString(n)

\* String(n).padStart(2, '0')
Pad2(n) == IF n >= 0 /\ n <= 9 THEN "0" \o ToString(n) ELSE ToString(n)

\* the 0-based month is written into the id as it is
getMonthlyDocIdZeroBased(userId, year, month) ==
  userId \o "_" \o ToString(year) \o "_" \o Pad2(month)

\* `${userId}_${year}_${String(month + 1).padStart(2, '0')}`
getMonthlyDocId(userId, year, month) ==
  userId \o "_" \o ToString(year) \o "_" \o Pad2(month + 1)

(***************************************************************************)
(* The calculators.  dates is the document's map from a two-digit day      *)
(* string to its entry; every entry is an object, so dates[dayStr] is      *)
(* truthy exactly when dayStr is a key.                                    *)
(***************************************************************************)
RECURSIVE SaturdaysFrom(_, _, _, _)
\* the loop for (day = 1; day <= daysInMonth; day++) collecting Saturdays
SaturdaysFrom(year, month, day, dim) ==
  IF day > dim THEN << >>
  ELSE IF getUTCDay(year, month, day) = SATURDAY
       THEN <<Pad2(day)>> \o SaturdaysFrom(year, month, day + 1, dim)
       ELSE SaturdaysFrom(year, month, day + 1, dim)

\* the filter on the keys of dates is forgotten
PresentOfAll(sats, dates) == sats

\* the days a sequence of day strings shares with the keys of dates
PresentOf(sats, dates) == SelectSeq(sats, LAMBDA s : s \in DOMAIN dates)

\* isCompliant asks for the three rules together
calculateMonthlyStatsAllRules(year, month, dates) ==
  LET dim              == daysInMonth(year, month)
      presentDays      == Cardinality(DOMAIN dates)
      saturdays        == SaturdaysFrom(year, month, 1, dim)
      presentSaturdays == PresentOf(saturdays, dates)
  IN [ totalDays            |-> dim,
       presentDays          |-> presentDays,
       totalSaturdays       |-> Len(saturdays),
       presentSaturdays     |-> Len(presentSaturdays),
       saturdays            |-> saturdays,
       presentSaturdayDates |-> presentSaturdays,
       compliance |->
         [ meetsAllSaturdays |-> Len(presentSaturdays) = Len(saturdays),
           meets8Days2Sats   |-> presentDays >= 8 /\ Len(presentSaturdays) >= 2,
           meets10Weekdays   |-> presentDays >= 10,
           isCompliant       |-> /\ Len(presentSaturdays) = Len(saturdays)
                                 /\ (presentDays >= 8 /\ Len(presentSaturdays) >= 2)
                                 /\ presentDays >= 10 ] ]

\* presence.js: calculateMonthlyStats
calculateMonthlyStats(year, month, dates) ==
  LET dim              == daysInMonth(year, month)
      presentDays      == Cardinality(DOMAIN dates)
      saturdays        == SaturdaysFrom(year, month, 1, dim)
      presentSaturdays == PresentOf(saturdays, dates)
  IN [ totalDays            |-> dim,
       presentDays          |-> presentDays,
       totalSaturdays       |-> Len(saturdays),
       presentSaturdays     |-> Len(presentSaturdays),
       saturdays            |-> saturdays,
       presentSaturdayDates |-> presentSaturdays,
       compliance |->
         [ meetsAllSaturdays |-> Len(presentSaturdays) = Len(saturdays),
           meets8Days2Sats   |-> presentDays >= 8 /\ Len(presentSaturdays) >= 2,
           meets10Weekdays   |-> presentDays >= 10,
           isCompliant       |-> \/ Len(presentSaturdays) = Len(saturdays)
                                 \/ (presentDays >= 8 /\ Len(presentSaturdays) >= 2)
                                 \/ presentDays >= 10 ] ]

\* inHousePresence.js / inHousePresenceService.js: calculateUserMonthlyStats
calculateUserMonthlyStats(year, month, dates) ==
  LET dim              == daysInMonth(year, month)
      presentDays      == Cardinality(DOMAIN dates)
      saturdays        == SaturdaysFrom(year, month, 1, dim)
      presentSaturdays == PresentOf(saturdays, dates)
  IN [ totalDays         |-> dim,
       presentDays       |-> presentDays,
       totalSaturdays    |-> Len(saturdays),
       presentSaturdays  |-> Len(presentSaturdays),
       meetsAllSaturdays |-> Len(presentSaturdays) = Len(saturdays),
       meets8Days2Sats   |-> presentDays >= 8 /\ Len(presentSaturdays) >= 2,
       meets10Weekdays   |-> presentDays >= 10 ]

(***************************************************************************)
(* Callers, request inputs and the document store.                         *)
(***************************************************************************)
\* req.user of the authenticated callers (the payload of their token)
Directory ==
  [ u1 |-> [userId |-> "u1", name |-> "Asha",  userType |-> "in-house"],
    u2 |-> [userId |-> "u2", name |-> "Bilal", userType |-> "in-house"],
    u3 |-> [userId |-> "u3", name |-> "Chen",  userType |-> "in-house"],
    c1 |-> [userId |-> "c1", name |-> "Core",  userType |-> "core"] ]

\* the callers of the presence routes
Callers == {"u1", "u2"}

\* a date string that matches /^\d{4}-\d{2}-\d{2}$/, split('-').map(Number)
IsoDate(y, m, d) == [present |-> TRUE, matches |-> TRUE, year |-> y, month |-> m, day |-> d]
\* a date string that does not match the pattern ("2024-2-3")
ShortDate(y, m, d) == [present |-> TRUE, matches |-> FALSE, year |-> y, month |-> m, day |-> d]
\* no date in the request
NoDate == [present |-> FALSE, matches |-> FALSE, year |-> 0, month |-> 0, day |-> 0]

\* the dates the callers send: a Saturday and a Monday of February 2024, a
\* malformed date and a missing one
DateInputs ==
  { IsoDate(2024, 2, 3), IsoDate(2024, 2, 5), ShortDate(2024, 2, 3), NoDate }

\* dates that match the pattern and name no day of the calendar: the 31st of
\* February, the first of a 13th month, a day 0
InvalidDates == { IsoDate(2024, 2, 31), IsoDate(2024, 13, 1), IsoDate(2024, 2, 0) }

\* req.body.type: absent (the default is manual) or activity
TypeInputs == {"undefined", "activity"}

\* what a request body can carry as type: the field is a free JSON value
BodyTypes == {"undefined", "manual", "activity", "holiday"}

\* the result of parseInt on a route parameter
Num(v) == [isNaN |-> FALSE, value |-> v]
NaN == [isNaN |-> TRUE, value |-> 0]
YearParams == {Num(2024), NaN}
\* 0-based month parameters of the presence routes (12 is out of range)
MonthParams == {Num(1), Num(12)}

\* what the store does with the handler's calls: nothing wrong, a failing
\* get, or a failing set
Faults == {"none", "get", "set"}

\* the store holds no document
NoDocs == << >>
\* a document's empty dates map, dates: {}
NoDates == << >>

\* the map is replaced by one that holds the new entry alone
PutAlone(dates, dayStr, entry) == [k \in {dayStr} |-> entry]

\* monthlyData.dates[dayStr] = entry
Put(dates, dayStr, entry) ==
  [k \in DOMAIN dates \cup {dayStr} |-> IF k = dayStr THEN entry ELSE dates[k]]

\* every entry is dropped, not only the one of dayStr
DelAll(dates, dayStr) == NoDates

\* delete monthlyData.dates[dayStr]
Del(dates, dayStr) == [k \in DOMAIN dates \ {dayStr} |-> dates[k]]

\* docRef.set(data, {merge: true}): the stored dates that data lacks are kept
SetDocMerge(st, docId, data) ==
  LET old    == IF docId \in DOMAIN st THEN st[docId].dates ELSE NoDates
      merged == [k \in DOMAIN old \cup DOMAIN data.dates |->
                   IF k \in DOMAIN data.dates THEN data.dates[k] ELSE old[k]]
  IN [k \in DOMAIN st \cup {docId} |->
        IF k = docId THEN [dates |-> merged] @@ data ELSE st[k]]

\* docRef.set(data): the whole document is replaced
SetDoc(st, docId, data) ==
  [k \in DOMAIN st \cup {docId} |-> IF k = docId THEN data ELSE st[k]]

\* what a handler leaves behind: the response, the store, the number of
\* docRef.get() calls it made and whether it called docRef.set()
Reply(status, body, st, reads, wrote) ==
  [status |-> status, body |-> body, store |-> st, reads |-> reads, wrote |-> wrote]

(***************************************************************************)
(* The handlers of routes/presence.js, as functions of the store, the      *)
(* caller, the request, the time and the store's fault.                    *)
(***************************************************************************)
\* the new monthly document of POST / and POST /activity-participation
NewMonthlyData(user, year, monthIndex, now) ==
  [ userId    |-> user.userId,
    username  |-> user.name,
    userType  |-> user.userType,
    year      |-> year,
    month     |-> monthIndex,
    dates     |-> NoDates,
    createdAt |-> now ]

\* the statistics are computed before the entry is added
WithEntryStale(monthlyData, year, monthIndex, dayStr, type, now) ==
  [ dates     |-> Put(monthlyData.dates, dayStr, [type |-> type, timestamp |-> now]),
    stats     |-> calculateMonthlyStats(year, monthIndex, monthlyData.dates),
    updatedAt |-> now ] @@ monthlyData

\* the entry is added, the statistics recomputed and updatedAt refreshed
WithEntry(monthlyData, year, monthIndex, dayStr, type, now) ==
  LET dates == Put(monthlyData.dates, dayStr, [type |-> type, timestamp |-> now])
  IN [ dates     |-> dates,
       stats     |-> calculateMonthlyStats(year, monthIndex, dates),
       updatedAt |-> now ] @@ monthlyData

\* the entry is removed and the statistics are left as they were
WithoutEntryStale(monthlyData, year, monthIndex, dayStr, now) ==
  [ dates     |-> Del(monthlyData.dates, dayStr),
    updatedAt |-> now ] @@ monthlyData

\* the entry is removed, the statistics recomputed and updatedAt refreshed
WithoutEntry(monthlyData, year, monthIndex, dayStr, now) ==
  LET dates == Del(monthlyData.dates, dayStr)
  IN [ dates     |-> dates,
       stats     |-> calculateMonthlyStats(year, monthIndex, dates),
       updatedAt |-> now ] @@ monthlyData

\* the test for an existing entry is missing
markedForDateNever(st, docId, dayStr) == FALSE

\* POST /: the document exists and monthlyData.dates[dayStr] is set
markedForDate(st, docId, dayStr) ==
  docId \in DOMAIN st /\ dayStr \in DOMAIN st[docId].dates

\* the test for an existing entry is missing
markedForActivityNever(st, docId, dayStr) == FALSE

\* POST /activity-participation: the same test of the existing document
markedForActivity(st, docId, dayStr) ==
  docId \in DOMAIN st /\ dayStr \in DOMAIN st[docId].dates

\* router.post('/'): mark presence for a date
postPresence(st, user, date, typeIn, now, fault) ==
  LET type == IF typeIn = "undefined" THEN "manual" ELSE typeIn IN
  IF ~date.present
  THEN Reply(400, [error |-> "Date is required"], st, 0, FALSE)
  ELSE IF ~date.matches
  THEN Reply(400, [error |-> "Date must be in YYYY-MM-DD format"], st, 0, FALSE)
  ELSE
    LET year == date.year
        monthIndex == date.month - 1
        dayStr == Pad2(date.day)
        docId == getMonthlyDocId(user.userId, year, monthIndex)
    IN IF fault = "get"
       THEN Reply(500, [error |-> "Failed to mark presence"], st, 1, FALSE)
       ELSE IF markedForDate(st, docId, dayStr)
       THEN Reply(400, [error |-> "Presence already marked for this date"], st, 1, FALSE)
       ELSE
         LET monthlyData == IF docId \in DOMAIN st THEN st[docId]
                            ELSE NewMonthlyData(user, year, monthIndex, now)
             saved == WithEntry(monthlyData, year, monthIndex, dayStr, type, now)
         IN IF fault = "set"
            THEN Reply(500, [error |-> "Failed to mark presence"], st, 1, FALSE)
            ELSE Reply(201, [ message |-> "Presence marked successfully",
                              date |-> date, type |-> type, stats |-> saved.stats ],
                       SetDoc(st, docId, saved), 1, TRUE)

\* the document is deleted with its last day
deletePresenceDropsEmpty(st, user, date, now, fault) ==
  IF ~date.matches
  THEN Reply(400, [error |-> "Date must be in YYYY-MM-DD format"], st, 0, FALSE)
  ELSE
    LET year == date.year
        monthIndex == date.month - 1
        dayStr == Pad2(date.day)
        docId == getMonthlyDocId(user.userId, year, monthIndex)
    IN IF fault = "get"
       THEN Reply(500, [error |-> "Failed to remove presence"], st, 1, FALSE)
       ELSE IF docId \notin DOMAIN st
       THEN Reply(404, [error |-> "No presence record found for this month"], st, 1, FALSE)
       ELSE IF dayStr \notin DOMAIN st[docId].dates
       THEN Reply(404, [error |-> "Presence record not found for this date"], st, 1, FALSE)
       ELSE IF fault = "set"
       THEN Reply(500, [error |-> "Failed to remove presence"], st, 1, FALSE)
       ELSE IF DOMAIN st[docId].dates = {dayStr}
       THEN Reply(200, [message |-> "Presence removed successfully"],
                  [k \in DOMAIN st \ {docId} |-> st[k]], 1, TRUE)
       ELSE Reply(200, [message |-> "Presence removed successfully"],
                  SetDoc(st, docId, WithoutEntry(st[docId], year, monthIndex, dayStr, now)),
                  1, TRUE)

\* router.delete('/:date'): remove presence for a date
deletePresence(st, user, date, now, fault) ==
  IF ~date.matches
  THEN Reply(400, [error |-> "Date must be in YYYY-MM-DD format"], st, 0, FALSE)
  ELSE
    LET year == date.year
        monthIndex == date.month - 1
        dayStr == Pad2(date.day)
        docId == getMonthlyDocId(user.userId, year, monthIndex)
    IN IF fault = "get"
       THEN Reply(500, [error |-> "Failed to remove presence"], st, 1, FALSE)
       ELSE IF docId \notin DOMAIN st
       THEN Reply(404, [error |-> "No presence record found for this month"], st, 1, FALSE)
       ELSE IF dayStr \notin DOMAIN st[docId].dates
       THEN Reply(404, [error |-> "Presence record not found for this date"], st, 1, FALSE)
       ELSE IF fault = "set"
       THEN Reply(500, [error |-> "Failed to remove presence"], st, 1, FALSE)
       ELSE Reply(200, [message |-> "Presence removed successfully"],
                  SetDoc(st, docId, WithoutEntry(st[docId], year, monthIndex, dayStr, now)),
                  1, TRUE)

\* the day is keyed as it was sent, padded or not
activityDayStrAsSent(date) == IF date.matches THEN Pad2(date.day) ELSE ToString(date.day)

\* String(day).padStart(2, '0') of the day of activityDate.split('-').map(Number)
activityDayStr(date) == Pad2(date.day)

\* router.post('/activity-participation'): mark presence from an activity
postActivityParticipation(st, user, date, now, fault) ==
  IF ~date.present
  THEN Reply(400, [error |-> "Activity date is required"], st, 0, FALSE)
  ELSE
    LET year == date.year
        monthIndex == date.month - 1
        dayStr == activityDayStr(date)
        docId == getMonthlyDocId(user.userId, year, monthIndex)
    IN IF fault = "get"
       THEN Reply(500, [error |-> "Failed to mark activity presence"], st, 1, FALSE)
       ELSE IF markedForActivity(st, docId, dayStr)
       THEN Reply(200, [message |-> "Presence already marked for this date"], st, 1, FALSE)
       ELSE
         LET monthlyData == IF docId \in DOMAIN st THEN st[docId]
                            ELSE NewMonthlyData(user, year, monthIndex, now)
             saved == WithEntry(monthlyData, year, monthIndex, dayStr, "activity", now)
         IN IF fault = "set"
            THEN Reply(500, [error |-> "Failed to mark activity presence"], st, 1, FALSE)
            ELSE Reply(201, [ message |-> "Presence marked through activity participation",
                              date |-> date, type |-> "activity" ],
                       SetDoc(st, docId, saved), 1, TRUE)

RECURSIVE RecordsFrom(_, _, _, _, _)
\* the presenceRecords of a dates map, sorted by date: the keys are two-digit
\* day strings, whose order as strings is their order as numbers
RecordsFrom(docId, yearNum, monthNum, dates, day) ==
  IF day > 99 THEN << >>
  ELSE IF Pad2(day) \in DOMAIN dates
       THEN << [ id        |-> docId \o "_" \o Pad2(day),
                 date      |-> ToString(yearNum) \o "-" \o Pad2(monthNum + 1) \o "-" \o Pad2(day),
                 type      |-> dates[Pad2(day)].type,
                 createdAt |-> dates[Pad2(day)].timestamp ] >>
            \o RecordsFrom(docId, yearNum, monthNum, dates, day + 1)
       ELSE RecordsFrom(docId, yearNum, monthNum, dates, day + 1)

\* router.get('/month/:year/:month'): the caller's month
getMonth(st, user, year, month, fault) ==
  IF year.isNaN \/ month.isNaN \/ month.value < 0 \/ month.value > 11
  THEN Reply(400, [error |-> "Invalid year or month"], st, 0, FALSE)
  ELSE
    LET yearNum == year.value
        monthNum == month.value
        docId == getMonthlyDocId(user.userId, yearNum, monthNum)
    IN IF fault = "get"
       THEN Reply(500, [error |-> "Failed to get presence data"], st, 1, FALSE)
       ELSE IF docId \notin DOMAIN st
       THEN Reply(200, [ presenceRecords |-> << >>, month |-> monthNum,
                         year |-> yearNum, count |-> 0 ], st, 1, FALSE)
       ELSE
         LET presenceRecords == RecordsFrom(docId, yearNum, monthNum, st[docId].dates, 0)
         IN Reply(200, [ presenceRecords |-> presenceRecords, month |-> monthNum,
                         year |-> yearNum, count |-> Len(presenceRecords),
                         stats |-> st[docId].stats ], st, 1, FALSE)

\* router.get('/stats/:year/:month'): the caller's statistics
getStats(st, user, year, month, fault) ==
  IF year.isNaN \/ month.isNaN \/ month.value < 0 \/ month.value > 11
  THEN Reply(400, [error |-> "Invalid year or month"], st, 0, FALSE)
  ELSE
    LET yearNum == year.value
        monthNum == month.value
        docId == getMonthlyDocId(user.userId, yearNum, monthNum)
    IN IF fault = "get"
       THEN Reply(500, [error |-> "Failed to get presence statistics"], st, 1, FALSE)
       ELSE
         LET stats == IF docId \in DOMAIN st THEN st[docId].stats
                      ELSE calculateMonthlyStats(yearNum, monthNum, NoDates)
         IN Reply(200, [ stats |-> [ presentDays       |-> stats.presentDays,
                                     totalDays         |-> stats.totalDays,
                                     presentSaturdays  |-> stats.presentSaturdays,
                                     totalSaturdays    |-> stats.totalSaturdays,
                                     meetsAllSaturdays |-> stats.compliance.meetsAllSaturdays,
                                     meets8Days2Sats   |-> stats.compliance.meets8Days2Sats,
                                     meets10Weekdays   |-> stats.compliance.meets10Weekdays,
                                     isCompliant       |-> stats.compliance.isCompliant ],
                         month |-> monthNum, year |-> yearNum,
                         saturdays |-> stats.saturdays,
                         presentSaturdays |-> stats.presentSaturdayDates ], st, 1, FALSE)

(***************************************************************************)
(* State.  store is the user_presence collection; clock the time the next  *)
(* new Date() returns; last the request just handled with its response,    *)
(* until the server takes the next one; prior the latest write (who wrote, *)
(* and the store it found); ov the overview request in progress; calc the  *)
(* calculators' run.  In ov, order and failed record the order in which    *)
(* the reads answered and which of them threw.  slow is a handler whose    *)
(* docRef.get() has answered and whose docRef.set() has not been issued,   *)
(* with the document it was given; other requests are served meanwhile.    *)
(***************************************************************************)
OvIdle == [phase |-> "idle"]
CalcIdle == [phase |-> "idle"]
\* no handler is waiting between its docRef.get() and its docRef.set()
NoTask == [op |-> "none"]

NoWrite == [op |-> "none", user |-> "", date |-> NoDate, store |-> NoDocs]

NoRequest ==
  [ op |-> "none", user |-> "", date |-> NoDate, type |-> "undefined",
    year |-> NaN, month |-> NaN, fault |-> "none", status |-> 0,
    body |-> [none |-> TRUE], reads |-> 0, writes |-> 0,
    pre |-> NoDocs, after |-> NoWrite, target |-> "" ]

\* the request just handled: what was asked, what was answered, the calls it
\* made to the store, the store it found (pre), the latest write before it
\* (after) and, on the routes of the core team, the user asked about (target)
Observed(op, u, date, typeIn, year, month, fault, r) ==
  [ op |-> op, user |-> u, date |-> date, type |-> typeIn,
    year |-> year, month |-> month, fault |-> fault,
    status |-> r.status, body |-> r.body,
    reads |-> r.reads, writes |-> IF r.wrote THEN 1 ELSE 0,
    pre |-> store, after |-> prior, target |-> "" ]

Init ==
  /\ store = NoDocs
  /\ prior = NoWrite
  /\ clock = 1
  /\ last = NoRequest
  /\ ov = OvIdle
  /\ calc = CalcIdle
  /\ slow = NoTask

\* a handler has run: its write, the time it took and its response
Handled(op, u, date, typeIn, year, month, fault, r) ==
  /\ last = NoRequest
  /\ ov.phase = "idle"
  /\ r.wrote => clock <= MaxClock
  /\ store' = r.store
  /\ prior' = IF r.wrote THEN [op |-> op, user |-> u, date |-> date, store |-> store]
              ELSE prior
  /\ clock' = IF r.wrote THEN clock + 1 ELSE clock
  /\ last' = Observed(op, u, date, typeIn, year, month, fault, r)
  /\ UNCHANGED <<ov, calc, slow>>

\* POST /api/presence
MarkDay(u, date, typeIn, fault) ==
  /\ typeIn \in BodyTypes
  /\ Handled("markDay", u, date, typeIn, NaN, NaN, fault,
             postPresence(store, Directory[u], date, typeIn, clock, fault))

\* DELETE /api/presence/:date
UnmarkDay(u, date, fault) ==
  /\ date.present
  /\ Handled("unmarkDay", u, date, "undefined", NaN, NaN, fault,
             deletePresence(store, Directory[u], date, clock, fault))

\* POST /api/presence/activity-participation
MarkFromActivity(u, date, fault) ==
  /\ fault \in Faults
  /\ Handled("markFromActivity", u, date, "undefined", NaN, NaN, fault,
             postActivityParticipation(store, Directory[u], date, clock, fault))

\* GET /api/presence/month/:year/:month
GetMonth(u, year, month, fault) ==
  /\ fault # "set"
  /\ Handled("getMonth", u, NoDate, "undefined", year, month, fault,
             getMonth(store, Directory[u], year, month, fault))

\* GET /api/presence/stats/:year/:month
GetStats(u, year, month, fault) ==
  /\ fault # "set"
  /\ Handled("getStats", u, NoDate, "undefined", year, month, fault,
             getStats(store, Directory[u], year, month, fault))

\* the response is out and the server takes the next request
NextRequest ==
  /\ last # NoRequest
  /\ ov.phase = "idle"
  /\ last' = NoRequest
  /\ UNCHANGED <<store, prior, clock, ov, calc, slow>>

(***************************************************************************)
(* A handler of a mutating route in two steps, as the event loop runs it:  *)
(* up to the answer of await docRef.get(), then from there to the answer   *)
(* of await docRef.set(), which replaces the document by the one computed  *)
(* from what the get returned.                                             *)
(***************************************************************************)
\* the dates of the requests that run in two steps
RaceDates == { IsoDate(2024, 2, 3), IsoDate(2024, 2, 5), ShortDate(2024, 2, 3) }

\* what docRef.get() returns: the document of that id, if there is one
Snapshot(st, docId) == [k \in DOMAIN st \cap {docId} |-> st[k]]

\* the handler of a mutating route
MutatingHandler(op, st, user, date, typeIn, now, fault) ==
  IF op = "markDay" THEN postPresence(st, user, date, typeIn, now, fault)
  ELSE IF op = "unmarkDay" THEN deletePresence(st, user, date, now, fault)
  ELSE postActivityParticipation(st, user, date, now, fault)

\* a request passes its checks and its docRef.get() answers
BeginSlow(op, u, date) ==
  /\ slow = NoTask
  /\ last = NoRequest
  /\ ov.phase = "idle"
  /\ date.present
  /\ op # "markFromActivity" => date.matches
  /\ slow' = [ op |-> op, user |-> u, date |-> date,
               seen |-> Snapshot(store, getMonthlyDocId(u, date.year, date.month - 1)) ]
  /\ UNCHANGED <<store, prior, clock, last, ov, calc>>

\* the handler goes on from the document it was given: it answers, or its
\* docRef.set() replaces the document of the store
FinishSlow ==
  /\ slow # NoTask
  /\ last = NoRequest
  /\ ov.phase = "idle"
  /\ LET docId == getMonthlyDocId(slow.user, slow.date.year, slow.date.month - 1)
         r == MutatingHandler(slow.op, slow.seen, Directory[slow.user], slow.date,
                              "undefined", clock, "none")
     IN /\ store' = IF r.wrote THEN SetDoc(store, docId, r.store[docId]) ELSE store
        /\ prior' = IF r.wrote
                    THEN [op |-> slow.op, user |-> slow.user, date |-> slow.date, store |-> store]
                    ELSE prior
        /\ clock' = IF r.wrote THEN clock + 1 ELSE clock
        /\ last' = Observed(slow.op, slow.user, slow.date, "undefined", NaN, NaN, "none", r)
  /\ slow' = NoTask
  /\ UNCHANGED <<ov, calc>>

\* the mutating requests, served in one step or in two
RaceRequest ==
  \E u \in Callers, date \in RaceDates :
    \/ MarkDay(u, date, "undefined", "none")
    \/ UnmarkDay(u, date, "none")
    \/ MarkFromActivity(u, date, "none")
    \/ \E op \in {"markDay", "unmarkDay", "markFromActivity"} : BeginSlow(op, u, date)

(***************************************************************************)
(* The overview of routes/inHousePresence.js (the same code as             *)
(* getPresenceOverview of services/inHousePresenceService.js).             *)
(***************************************************************************)
\* the in-house users the directory can list
RosterUsers == {"u1", "u2", "u3"}

\* one user as getAllInHouseUsers builds it
RosterUser(u) == [userId |-> u, name |-> Directory[u].name]

\* the lists the directory returns: none, one, two or three users, in an
\* order of its own
Rosters ==
  { << >>, <<"u1">>, <<"u2", "u1">>, <<"u1", "u2", "u3">>, <<"u3", "u1", "u2">> }

\* getAllInHouseUsers: the listed users, or [] when the lookup throws
getAllInHouseUsers(roster, lookupFails) ==
  IF lookupFails THEN << >> ELSE [i \in DOMAIN roster |-> RosterUser(roster[i])]

\* 1-based month parameters of the overview route
OvMonthParams == {Num(2), Num(3)}
OvYearParams == {Num(2024)}

\* a fetch that has not answered yet
Pending == [pending |-> TRUE]

\* the catch block forgets to flag the entry
userPresenceEntryUnflagged(user, st, yearNum, monthNum, fetchFails) ==
  LET docId  == getMonthlyDocId(user.userId, yearNum, monthNum)
      exists == docId \in DOMAIN st /\ ~fetchFails
      dates  == IF exists THEN st[docId].dates ELSE NoDates
  IN [ stats        |-> calculateUserMonthlyStats(yearNum, monthNum, dates),
       presentDates |-> { ToString(yearNum) \o "-" \o Pad2(monthNum + 1) \o "-" \o day :
                          day \in DOMAIN dates },
       hasData      |-> exists ] @@ user

\* the async callback of users.map: one user's entry, from the document the
\* store returns or from the catch block when the read throws
userPresenceEntry(user, st, yearNum, monthNum, fetchFails) ==
  IF fetchFails
  THEN [ stats        |-> calculateUserMonthlyStats(yearNum, monthNum, NoDates),
         presentDates |-> {},
         hasData      |-> FALSE,
         error        |-> TRUE ] @@ user
  ELSE
    LET docId  == getMonthlyDocId(user.userId, yearNum, monthNum)
        exists == docId \in DOMAIN st
        dates  == IF exists THEN st[docId].dates ELSE NoDates
    IN [ stats        |-> calculateUserMonthlyStats(yearNum, monthNum, dates),
         presentDates |-> { ToString(yearNum) \o "-" \o Pad2(monthNum + 1) \o "-" \o day :
                            day \in DOMAIN dates },
         hasData      |-> exists ] @@ user

\* the first callback that took its catch block settles the whole
settledOnFirstError(results) ==
  \/ \A i \in DOMAIN results : results[i] # Pending
  \/ \E i \in DOMAIN results : results[i] # Pending /\ "error" \in DOMAIN results[i]

\* await Promise.all(promises) goes on when every promise is fulfilled; the
\* callbacks catch their own errors, so none is ever rejected
settled(results) == \A i \in DOMAIN results : results[i] # Pending

\* the results are collected as they arrive
PromiseAllByArrival(results, order) == [i \in DOMAIN order |-> results[order[i]]]

\* Promise.all: the results in the order of the promises, whatever the order
\* in which they were fulfilled
PromiseAll(results, order) == results

\* a / b in floating point: 0 / 0 is NaN
Divide(a, b) == [num |-> a, den |-> b, isNaN |-> (a = 0 /\ b = 0)]

RECURSIVE SumPresentDays(_, _)
\* userPresenceData.reduce((sum, u) => sum + u.stats.presentDays, 0)
SumPresentDays(data, i) ==
  IF i > Len(data) THEN 0 ELSE data[i].stats.presentDays + SumPresentDays(data, i + 1)

\* u.error, truthy only on the entries of the catch block
HasError(e) == "error" \in DOMAIN e /\ e.error

\* the mean is taken over the users whose read answered
overallStatsOverFetched(users, data) ==
  [ totalUsers           |-> Len(users),
    usersWithData        |-> Cardinality({i \in DOMAIN data : data[i].hasData}),
    usersWithErrors      |-> Cardinality({i \in DOMAIN data : HasError(data[i])}),
    averagePresentDays   |-> Divide(SumPresentDays(data, 1),
                                    Cardinality({i \in DOMAIN data : ~HasError(data[i])})),
    usersMetAllSaturdays |-> Cardinality({i \in DOMAIN data : data[i].stats.meetsAllSaturdays}),
    usersMet8Days2Sats   |-> Cardinality({i \in DOMAIN data : data[i].stats.meets8Days2Sats}),
    usersMet10Weekdays   |-> Cardinality({i \in DOMAIN data : data[i].stats.meets10Weekdays}) ]

\* the roster-wide reductions
overallStats(users, data) ==
  [ totalUsers           |-> Len(users),
    usersWithData        |-> Cardinality({i \in DOMAIN data : data[i].hasData}),
    usersWithErrors      |-> Cardinality({i \in DOMAIN data : HasError(data[i])}),
    averagePresentDays   |-> Divide(SumPresentDays(data, 1), Len(users)),
    usersMetAllSaturdays |-> Cardinality({i \in DOMAIN data : data[i].stats.meetsAllSaturdays}),
    usersMet8Days2Sats   |-> Cardinality({i \in DOMAIN data : data[i].stats.meets8Days2Sats}),
    usersMet10Weekdays   |-> Cardinality({i \in DOMAIN data : data[i].stats.meets10Weekdays}) ]

\* GET /api/in-house-presence/overview/:year/:month, up to the fan-out: the
\* caller is checked, the roster fetched and one read per user issued
OverviewStart(caller, year, month, roster, lookupFails) ==
  /\ last = NoRequest
  /\ ov.phase = "idle"
  /\ IF Directory[caller].userType # "core"
     THEN /\ last' = [ Observed("overview", caller, NoDate, "undefined", year, month, "none",
                                Reply(403, [error |-> "Access denied. Core team members only."],
                                      store, 0, FALSE))
                       EXCEPT !.status = 403 ]
          /\ ov' = ov
     ELSE LET users == getAllInHouseUsers(roster, lookupFails)
          IN /\ ov' = [ phase   |-> "fanout",
                        year    |-> year.value,
                        month   |-> month.value - 1,
                        users   |-> users,
                        results |-> [i \in DOMAIN users |-> Pending],
                        order   |-> << >>,
                        failed  |-> {} ]
             /\ last' = [ Observed("overview", caller, NoDate, "undefined", year, month,
                                   IF lookupFails THEN "roster" ELSE "none",
                                   Reply(0, [pending |-> TRUE], store, 0, FALSE))
                          EXCEPT !.status = 0 ]
  /\ UNCHANGED <<store, prior, clock, calc, slow>>

\* the read of the i-th user answers, with a document or with an error
FetchDone(i, fetchFails) ==
  /\ ov.phase = "fanout"
  /\ i \in DOMAIN ov.results
  /\ ov.results[i] = Pending
  /\ ov' = [ ov EXCEPT
               !.results[i] = userPresenceEntry(ov.users[i], store, ov.year, ov.month, fetchFails),
               !.order = Append(@, i),
               !.failed = IF fetchFails THEN @ \cup {i} ELSE @ ]
  /\ UNCHANGED <<store, prior, clock, last, calc, slow>>

\* every read has answered: the reductions are computed and the overview sent
OverviewRespond ==
  /\ ov.phase = "fanout"
  /\ settled(ov.results)
  /\ LET userPresenceData == PromiseAll(ov.results, ov.order)
     IN last' = [ last EXCEPT
                    !.status = 200,
                    !.body = [ users        |-> userPresenceData,
                               overallStats |-> overallStats(ov.users, userPresenceData),
                               month        |-> ov.month + 1,
                               year         |-> ov.year,
                               roster       |-> ov.users,
                               order        |-> ov.order,
                               failed       |-> ov.failed ] ]
  /\ ov' = OvIdle
  /\ UNCHANGED <<store, prior, clock, calc, slow>>

\* the overview request, step by step
OverviewRequest ==
  \/ \E caller \in {"c1", "u1"}, year \in OvYearParams, month \in OvMonthParams,
        roster \in Rosters, lookupFails \in BOOLEAN :
       OverviewStart(caller, year, month, roster, lookupFails)
  \/ \E i \in 1..Cardinality(RosterUsers), fetchFails \in BOOLEAN : FetchDone(i, fetchFails)
  \/ OverviewRespond

(***************************************************************************)
(* One user's month for the core team: the route of                        *)
(* routes/inHousePresence.js and getUserMonthlyPresence of                 *)
(* services/inHousePresenceService.js.                                     *)
(***************************************************************************)
\* what the two lookups do: nothing wrong, a failing docRef.get(), an
\* admin.auth().getUser() that fails (the directory cannot be reached), or one
\* that rejects because the directory has no such user
UserMonthFaults == {"none", "get", "auth", "nouser"}

RECURSIVE UserRecordsFrom(_, _, _, _, _)
\* the presenceRecords of a dates map, sorted by date (markedAt is read from
\* entries that carry a timestamp, and is undefined)
UserRecordsFrom(docId, yearNum, monthNum, dates, day) ==
  IF day > 99 THEN << >>
  ELSE IF Pad2(day) \in DOMAIN dates
       THEN << [ id   |-> docId \o "_" \o Pad2(day),
                 date |-> ToString(yearNum) \o "-" \o Pad2(monthNum + 1) \o "-" \o Pad2(day),
                 type |-> dates[Pad2(day)].type ] >>
            \o UserRecordsFrom(docId, yearNum, monthNum, dates, day + 1)
       ELSE UserRecordsFrom(docId, yearNum, monthNum, dates, day + 1)

\* userInfo, from the record admin.auth().getUser returns
userInfoOf(userId) == [userId |-> userId, name |-> Directory[userId].name]

\* the records, the stats and the month both versions compute from the store
userMonthData(st, userId, yearNum, monthNum) ==
  LET docId  == getMonthlyDocId(userId, yearNum, monthNum)
      exists == docId \in DOMAIN st
      dates  == IF exists THEN st[docId].dates ELSE NoDates
      presenceRecords == UserRecordsFrom(docId, yearNum, monthNum, dates, 0)
  IN [ presenceRecords |-> presenceRecords,
       stats           |-> calculateUserMonthlyStats(yearNum, monthNum, dates),
       month           |-> monthNum + 1,
       year            |-> yearNum,
       totalRecords    |-> Len(presenceRecords) ]

\* the names the route's handler can read: userInfo is declared in it,
\* userData is declared nowhere in its scope
HandlerScope == {"req", "res", "userId", "year", "month", "yearNum", "monthNum",
                 "userInfo", "docId", "presenceDoc", "presenceRecords", "stats"}

\* router.get('/user/:userId/month/:year/:month'): res.json reads
\* userData.name, and a name that is not in scope throws a ReferenceError,
\* which the route's catch answers with 500
getUserMonth(st, caller, userId, year, month, fault) ==
  IF caller.userType # "core"
  THEN Reply(403, [error |-> "Access denied. Core team members only."], st, 0, FALSE)
  ELSE
    LET yearNum  == year.value
        monthNum == month.value - 1
    IN IF fault \in {"auth", "nouser"}
       THEN Reply(404, [error |-> "User not found"], st, 0, FALSE)
       ELSE IF fault = "get"
       THEN Reply(500, [error |-> "Failed to get user presence data"], st, 1, FALSE)
       ELSE IF "userData" \notin HandlerScope
       THEN Reply(500, [error |-> "Failed to get user presence data"], st, 1, FALSE)
       ELSE Reply(200, [user |-> userInfoOf(userId)]
                         @@ userMonthData(st, userId, yearNum, monthNum), st, 1, FALSE)

\* getUserMonthlyPresence: the same steps, returning userInfo; its errors are
\* thrown to the caller, a missing user with statusCode 404
getUserMonthlyPresence(st, userId, year, month, fault) ==
  LET yearNum  == year.value
      monthNum == month.value - 1
  IN IF fault \in {"auth", "nouser"}
     THEN Reply(404, [error |-> "User not found"], st, 0, FALSE)
     ELSE IF fault = "get"
     THEN Reply(500, [error |-> "thrown by docRef.get"], st, 1, FALSE)
     ELSE Reply(200, [user |-> userInfoOf(userId)]
                       @@ userMonthData(st, userId, yearNum, monthNum), st, 1, FALSE)

\* a read on behalf of the core team has run: its response, and whom it was about
Asked(op, caller, userId, year, month, fault, r) ==
  /\ last = NoRequest
  /\ ov.phase = "idle"
  /\ last' = [ Observed(op, caller, NoDate, "undefined", year, month, fault, r)
               EXCEPT !.target = userId ]
  /\ UNCHANGED <<store, prior, clock, ov, calc, slow>>

\* GET /api/in-house-presence/user/:userId/month/:year/:month
GetUserMonth(caller, userId, year, month, fault) ==
  /\ fault \in UserMonthFaults
  /\ Asked("getUserMonth", caller, userId, year, month, fault,
           getUserMonth(store, Directory[caller], userId, year, month, fault))

\* a call of the service's getUserMonthlyPresence
GetUserMonthlyPresence(userId, year, month, fault) ==
  /\ fault \in UserMonthFaults
  /\ Asked("getUserMonthlyPresence", "c1", userId, year, month, fault,
           getUserMonthlyPresence(store, userId, year, month, fault))

\* the requests about one user's month
UserMonthRequest ==
  \E userId \in RosterUsers, year \in OvYearParams, month \in OvMonthParams,
     fault \in UserMonthFaults :
    \/ \E caller \in {"c1", "u1"} : GetUserMonth(caller, userId, year, month, fault)
    \/ GetUserMonthlyPresence(userId, year, month, fault)

\* the requests of the presence routes
PresenceRequest ==
  \E u \in Callers, fault \in Faults :
    \/ \E date \in DateInputs, typeIn \in TypeInputs : MarkDay(u, date, typeIn, fault)
    \/ \E date \in DateInputs : UnmarkDay(u, date, fault)
    \/ \E date \in DateInputs : MarkFromActivity(u, date, fault)
    \/ \E year \in YearParams, month \in MonthParams : GetMonth(u, year, month, fault)
    \/ \E year \in YearParams, month \in MonthParams : GetStats(u, year, month, fault)

Next == PresenceRequest \/ NextRequest

Spec == Init /\ [][Next]_vars

(***************************************************************************)
(* The calculators on their own: an input is drawn, then one of the two    *)
(* copies is applied to it.                                                *)
(***************************************************************************)
CalcYears == {2023, 2024, 2100}
CalcMonths == 0..11
\* the distance between the days of an input
DaySteps == {1, 2, 7}

\* leap years of the Gregorian calendar
IsLeapYear(y) == (y % 4 = 0 /\ y % 100 # 0) \/ y % 400 = 0

\* days of the 0-based month m of year y, from the calendar's table
DaysInMonthRef(y, m) ==
  IF m = 1 THEN (IF IsLeapYear(y) THEN 29 ELSE 28)
  ELSE IF m \in {3, 5, 8, 10} THEN 30 ELSE 31

\* day of the week of day d of the 0-based month m of year y, 0 = Sunday
\* (Sakamoto's congruence)
DayOfWeekRef(y, m, d) ==
  LET t  == <<0, 3, 2, 5, 0, 3, 5, 1, 4, 6, 2, 4>>
      yy == IF m < 2 THEN y - 1 ELSE y
  IN (yy + yy \div 4 - yy \div 100 + yy \div 400 + t[m + 1] + d) % 7

\* the Saturdays of the month, as day numbers
SaturdaysRef(y, m) == {d \in 1..DaysInMonthRef(y, m) : DayOfWeekRef(y, m, d) = 6}

\* a dates map over the valid days first, first + step, ... (count of them)
DatesOf(y, m, first, step, count) ==
  LET days == {d \in 1..DaysInMonthRef(y, m) :
                 \E i \in 0..(count - 1) : d = first + i * step}
  IN [k \in {Pad2(d) : d \in days} |-> [type |-> "manual", timestamp |-> 0]]

InitCalc ==
  /\ store = NoDocs
  /\ prior = NoWrite
  /\ clock = 1
  /\ last = NoRequest
  /\ ov = OvIdle
  /\ slow = NoTask
  /\ \E y \in CalcYears, m \in CalcMonths, first \in 1..31, step \in DaySteps,
        count \in 0..MaxCount :
       calc = [phase |-> "input", year |-> y, month |-> m, dates |-> DatesOf(y, m, first, step, count)]

\* presence.js computes the statistics of the input
CalculateMonthly ==
  /\ calc.phase = "input"
  /\ calc' = [ phase |-> "done", by |-> "calculateMonthlyStats",
               year |-> calc.year, month |-> calc.month, dates |-> calc.dates,
               stats |-> calculateMonthlyStats(calc.year, calc.month, calc.dates) ]
  /\ UNCHANGED <<store, prior, clock, last, ov, slow>>

\* inHousePresence.js computes the statistics of the input
CalculateUserMonthly ==
  /\ calc.phase = "input"
  /\ calc' = [ phase |-> "done", by |-> "calculateUserMonthlyStats",
               year |-> calc.year, month |-> calc.month, dates |-> calc.dates,
               stats |-> calculateUserMonthlyStats(calc.year, calc.month, calc.dates) ]
  /\ UNCHANGED <<store, prior, clock, last, ov, slow>>

NextCalc == CalculateMonthly \/ CalculateUserMonthly

SpecCalc == InitCalc /\ [][NextCalc]_vars

\* the presence routes for a few writes, and the overview
NextOverview ==
  \/ (clock <= MaxOvClock /\ PresenceRequest)
  \/ NextRequest
  \/ OverviewRequest

SpecOverview == Init /\ [][NextOverview]_vars

\* the event loop runs every continuation that is ready: the response is
\* sent once Promise.all has settled and the next request is taken; nothing
\* makes the store answer a get, so FetchDone carries no fairness
SpecOverviewFair ==
  /\ Init
  /\ [][NextOverview]_vars
  /\ WF_vars(OverviewRespond)
  /\ WF_vars(NextRequest)

\* the presence routes for a few writes, and the reads of one user's month
NextUserMonth ==
  \/ (clock <= MaxOvClock /\ PresenceRequest)
  \/ NextRequest
  \/ UserMonthRequest

SpecUserMonth == Init /\ [][NextUserMonth]_vars

\* the presence routes for a few writes, and both reads of the core team
NextErrors ==
  \/ (clock <= MaxOvClock /\ PresenceRequest)
  \/ NextRequest
  \/ UserMonthRequest
  \/ OverviewRequest

SpecErrors == Init /\ [][NextErrors]_vars

\* the mutating routes, two requests at a time, for a few writes
NextRace ==
  \/ (clock <= MaxOvClock /\ RaceRequest)
  \/ (clock <= MaxOvClock /\ FinishSlow)
  \/ NextRequest

SpecRace == Init /\ [][NextRace]_vars

\* the routes on dates, months and years that name nothing in the calendar
NextValidation ==
  \/ \E u \in Callers, fault \in Faults, date \in InvalidDates :
       /\ clock <= MaxOvClock
       /\ \/ MarkDay(u, date, "undefined", fault)
          \/ UnmarkDay(u, date, fault)
          \/ MarkFromActivity(u, date, fault)
  \/ \E u \in Callers, fault \in Faults, year \in YearParams, month \in MonthParams :
       GetMonth(u, year, month, fault)
  \/ NextRequest
  \/ \E roster \in {<<"u1">>, <<"u2", "u1">>} :
       OverviewStart("c1", Num(2024), Num(13), roster, FALSE)
  \/ \E i \in 1..Cardinality(RosterUsers), fetchFails \in BOOLEAN : FetchDone(i, fetchFails)
  \/ OverviewRespond

SpecValidation == Init /\ [][NextValidation]_vars

\* the three writing routes, with every type a body can carry
NextKinds ==
  \/ \E u \in Callers, fault \in Faults, date \in DateInputs :
       /\ clock <= MaxOvClock
       /\ \/ \E typeIn \in BodyTypes : MarkDay(u, date, typeIn, fault)
          \/ UnmarkDay(u, date, fault)
          \/ MarkFromActivity(u, date, fault)
  \/ NextRequest

SpecKinds == Init /\ [][NextKinds]_vars

(***************************************************************************)
(* One write to a month that already holds days: the store starts with the *)
(* document earlier requests of u1 have left in it.                        *)
(***************************************************************************)
\* the months of the stored document: February (4 Saturdays) and June
\* (5 Saturdays) of 2024, 0-based
MonoYears == {2024}
MonoMonths == {1, 5}

\* the document the routes have stored for a user's month with these dates
RecordOf(user, year, monthIndex, dates) ==
  [ dates     |-> dates,
    stats     |-> calculateMonthlyStats(year, monthIndex, dates),
    updatedAt |-> 0 ] @@ NewMonthlyData(user, year, monthIndex, 0)

InitMonotone ==
  /\ prior = NoWrite
  /\ clock = 1
  /\ last = NoRequest
  /\ ov = OvIdle
  /\ calc = CalcIdle
  /\ slow = NoTask
  /\ \E y \in MonoYears, m \in MonoMonths, first \in 1..7, step \in DaySteps,
        count \in 0..MaxCount :
       store = [k \in {getMonthlyDocId("u1", y, m)}
                  |-> RecordOf(Directory["u1"], y, m, DatesOf(y, m, first, step, count))]

\* one request of u1 about a day of the stored month, until one has written
NextMonotone ==
  \/ \E fault \in Faults, k \in DOMAIN store, d \in 1..31 :
       /\ prior = NoWrite
       /\ LET date == IsoDate(store[k].year, store[k].month + 1, d)
          IN \/ MarkDay("u1", date, "undefined", fault)
             \/ UnmarkDay("u1", date, fault)
             \/ MarkFromActivity("u1", date, fault)
  \/ NextRequest

SpecMonotone == InitMonotone /\ [][NextMonotone]_vars

(***************************************************************************)
(* Properties.                                                             *)
(***************************************************************************)
\* the two-digit spelling of a day of the month, or of a month
TwoDigits(d) ==
  << "01", "02", "03", "04", "05", "06", "07", "08", "09", "10",
     "11", "12", "13", "14", "15", "16", "17", "18", "19", "20",
     "21", "22", "23", "24", "25", "26", "27", "28", "29", "30", "31" >>[d]

\* the document and the day string a dated request is about
DocIdOf(u, date) == getMonthlyDocId(u, date.year, date.month - 1)
DayStrOf(date) == Pad2(date.day)
DayMarked(st, u, date) ==
  DocIdOf(u, date) \in DOMAIN st /\ DayStrOf(date) \in DOMAIN st[DocIdOf(u, date)].dates

\* the request just handled comes after a successful POST / of the same caller
\* for the same date, with no write in between
FollowsMark ==
  /\ last.after.op = "markDay"
  /\ last.after.user = last.user
  /\ last.after.date = last.date

\* the flags of a statistics value, wherever the calculator puts them
FlagsOf(stats) == IF "compliance" \in DOMAIN stats THEN stats.compliance ELSE stats

\* C1: a POST / on an unmarked day with a working store succeeds and marks the
\* day; a POST / that follows a successful POST / of the same caller for the
\* same date is answered 400 "already marked" and writes nothing: the store,
\* with the entry's kind and timestamp, the stats and updatedAt, is what the
\* first call left.
C1_ConflictLaw ==
  /\ ( last.op = "markDay" /\ last.date.matches /\ last.fault = "none"
       /\ ~DayMarked(last.pre, last.user, last.date) )
     => (last.status = 201 /\ DayMarked(store, last.user, last.date))
  /\ ( last.op = "markDay" /\ FollowsMark /\ last.fault # "get" )
     => /\ last.status = 400
        /\ last.body = [error |-> "Presence already marked for this date"]
        /\ store = last.pre
        /\ DayMarked(store, last.user, last.date)

\* the second of two POST / for the same day has been answered
C1_Witness ==
  /\ last.op = "markDay" /\ FollowsMark /\ last.status = 400
  /\ last.type = "activity"
  /\ store[DocIdOf(last.user, last.date)].dates[DayStrOf(last.date)].type = "manual"

\* the statistics a month reports before a mark: those of its document, or
\* those of the empty map when there is no document
Baseline(st, u, date) ==
  IF DocIdOf(u, date) \in DOMAIN st THEN st[DocIdOf(u, date)].stats
  ELSE calculateMonthlyStats(date.year, date.month - 1, NoDates)

\* C2: when a DELETE succeeds right after the successful POST / of the same
\* day, the document's stats equal the baseline of the store the POST found,
\* whether or not that store held a document for the month.
C2_RoundTrip ==
  ( last.op = "unmarkDay" /\ last.status = 200 /\ FollowsMark )
  => store[DocIdOf(last.user, last.date)].stats = Baseline(last.after.store, last.user, last.date)

\* a mark and its unmark on a month that already held another day
C2_Witness ==
  /\ last.op = "unmarkDay" /\ last.status = 200 /\ FollowsMark
  /\ DocIdOf(last.user, last.date) \in DOMAIN last.after.store
  /\ last.after.store[DocIdOf(last.user, last.date)].stats.presentDays = 1
  /\ store[DocIdOf(last.user, last.date)].stats.presentDays = 1

\* C3: a DELETE whose read works answers 404 and leaves the store as it was
\* when the month has no document or the document has no entry for the day;
\* otherwise it removes that entry and keeps every other entry (and every
\* other document) as it was.
C3_Unmark ==
  ( last.op = "unmarkDay" /\ last.date.matches /\ last.fault # "get" )
  => LET docId == DocIdOf(last.user, last.date)
         dayStr == DayStrOf(last.date)
     IN IF ~DayMarked(last.pre, last.user, last.date)
        THEN last.status = 404 /\ store = last.pre
        ELSE last.fault = "none"
             => /\ last.status = 200
                /\ DOMAIN store = DOMAIN last.pre
                /\ \A k \in DOMAIN store : k # docId => store[k] = last.pre[k]
                /\ DOMAIN store[docId].dates = DOMAIN last.pre[docId].dates \ {dayStr}
                /\ \A d \in DOMAIN store[docId].dates :
                     store[docId].dates[d] = last.pre[docId].dates[d]

\* one of two entries has been removed
C3_Witness ==
  /\ last.op = "unmarkDay" /\ last.status = 200
  /\ Cardinality(DOMAIN last.pre[DocIdOf(last.user, last.date)].dates) = 2
  /\ Cardinality(DOMAIN store[DocIdOf(last.user, last.date)].dates) = 1

\* C4 as claimed: GET /month answers a month without a document with the
\* stats of the empty map, the same stats it reports for a document whose
\* dates map is empty.
C4_GetMonthSynthesized ==
  ( last.op = "getMonth" /\ last.status = 200 )
  => LET docId == getMonthlyDocId(last.user, last.year.value, last.month.value)
         empty == calculateMonthlyStats(last.year.value, last.month.value, NoDates)
     IN /\ docId \notin DOMAIN last.pre
           => ("stats" \in DOMAIN last.body /\ last.body.stats = empty)
        /\ (docId \in DOMAIN last.pre /\ DOMAIN last.pre[docId].dates = {})
           => ("stats" \in DOMAIN last.body /\ last.body.stats = empty)

\* C8: a POST /activity-participation on a marked day answers 200 with the
\* "already marked" message (a newly marked day answers 201) and leaves the
\* store as it was; on an unmarked day, for a well-formed date, it leaves the
\* store POST / with type activity leaves.
C8_ActivityNoOp ==
  ( last.op = "markFromActivity" /\ last.date.present /\ last.fault = "none" )
  => IF DayMarked(last.pre, last.user, last.date)
     THEN /\ last.status = 200
          /\ last.body = [message |-> "Presence already marked for this date"]
          /\ store = last.pre
     ELSE /\ last.status = 201
          /\ last.date.matches
             => store = postPresence(last.pre, Directory[last.user], last.date,
                                     "activity", clock - 1, "none").store

\* an activity signal for a day that was marked by hand
C8_Witness ==
  /\ last.op = "markFromActivity" /\ last.status = 200
  /\ DayMarked(last.pre, last.user, last.date)
  /\ store[DocIdOf(last.user, last.date)].dates[DayStrOf(last.date)].type = "manual"

\* the overview has answered
OverviewAnswered == last.op = "overview" /\ last.status = 200

\* C5: the users of an overview are as many as the roster's, the i-th being
\* the i-th roster user, whichever reads failed and in whatever order they
\* answered.
C5_RosterOrder ==
  OverviewAnswered
  => /\ Len(last.body.users) = Len(last.body.roster)
     /\ \A i \in 1..Len(last.body.roster) :
          last.body.users[i].userId = last.body.roster[i].userId

\* three users, the reads answered out of roster order and one of them failed
C5_Witness ==
  /\ OverviewAnswered
  /\ Len(last.body.roster) = 3
  /\ last.body.order = <<3, 1, 2>>
  /\ last.body.failed = {1}

\* the entry of a user whose read threw
FailedEntryOk(e, yearNum, monthNum) ==
  /\ "error" \in DOMAIN e /\ e.error
  /\ ~e.hasData
  /\ e.presentDates = {}
  /\ e.stats.presentDays = 0
  /\ e.stats.presentSaturdays = 0
  /\ e.stats.totalDays = DaysInMonthRef(yearNum, monthNum)
  /\ e.stats.totalSaturdays = Cardinality(SaturdaysRef(yearNum, monthNum))
  /\ ~e.stats.meetsAllSaturdays /\ ~e.stats.meets8Days2Sats /\ ~e.stats.meets10Weekdays

\* the entry of a user whose read answered, from the store
FetchedEntryOk(e, user, st, yearNum, monthNum) ==
  LET docId == getMonthlyDocId(user.userId, yearNum, monthNum)
      days  == IF docId \in DOMAIN st THEN DOMAIN st[docId].dates ELSE {}
  IN /\ "error" \notin DOMAIN e
     /\ e.userId = user.userId
     /\ e.hasData = (docId \in DOMAIN st)
     /\ Cardinality(e.presentDates) = Cardinality(days)
     /\ e.stats.presentDays = Cardinality(days)

\* C6: a read that throws does not fail the overview: the overview of a core
\* caller is answered 200, the entry of each user whose read threw is flagged,
\* without data, with no dates and zero statistics, and the entry of every
\* other user is what the store holds for that user.
C6_FailureIsolation ==
  /\ ov.phase = "fanout"
     => \A i \in DOMAIN ov.results :
          ov.results[i] # Pending
          => IF i \in ov.failed
             THEN FailedEntryOk(ov.results[i], ov.year, ov.month)
             ELSE FetchedEntryOk(ov.results[i], ov.users[i], store, ov.year, ov.month)
  /\ ( last.op = "overview" /\ last.status # 0 /\ Directory[last.user].userType = "core" )
     => /\ last.status = 200
        /\ \A i \in DOMAIN last.body.users :
             IF i \in last.body.failed
             THEN FailedEntryOk(last.body.users[i], last.body.year, last.body.month - 1)
             ELSE FetchedEntryOk(last.body.users[i], last.body.roster[i], store,
                                 last.body.year, last.body.month - 1)

\* an overview in which one read threw and another returned a document
C6_Witness ==
  /\ OverviewAnswered
  /\ last.body.failed # {}
  /\ \E i \in DOMAIN last.body.users : last.body.users[i].hasData
  /\ \E i \in last.body.failed :
       getMonthlyDocId(last.body.roster[i].userId, last.body.year, last.body.month - 1)
         \in DOMAIN store

\* the days the store holds for the i-th roster user of the answered overview
StoredDays(i) ==
  LET docId == getMonthlyDocId(last.body.roster[i].userId, last.body.year, last.body.month - 1)
  IN IF docId \in DOMAIN store THEN Cardinality(DOMAIN store[docId].dates) ELSE 0

RECURSIVE StoredDaysSum(_)
\* the days the store holds for a set of roster users, together
StoredDaysSum(S) ==
  IF S = {} THEN 0
  ELSE LET i == CHOOSE i \in S : TRUE IN StoredDays(i) + StoredDaysSum(S \ {i})

\* C7: usersWithErrors is the number of users whose read threw, and
\* averagePresentDays is the present days of the users whose read answered
\* (the others counting 0) over the size of the roster.
C7_Reductions ==
  OverviewAnswered
  => LET n == Len(last.body.roster)
         fetched == (1..n) \ last.body.failed
     IN /\ last.body.overallStats.totalUsers = n
        /\ last.body.overallStats.usersWithErrors = Cardinality(last.body.failed)
        /\ last.body.overallStats.averagePresentDays.num = StoredDaysSum(fetched)
        /\ last.body.overallStats.averagePresentDays.den = n

\* three users, one read failed, the two others hold days
C7_Witness ==
  /\ OverviewAnswered
  /\ Len(last.body.roster) = 3
  /\ Cardinality(last.body.failed) = 1
  /\ Len(last.body.users) = 3
  /\ last.body.overallStats.usersWithErrors = 1
  /\ last.body.overallStats.averagePresentDays = Divide(2, 3)

\* C9: both calculators give the days of the month, the number of keys, the
\* Saturdays of the month and those among the keys, and the three rules
\* (all Saturdays; 8 days with 2 Saturdays; 10 days of any kind).
C9_MatchesReference ==
  calc.phase = "done"
  => LET sats == SaturdaysRef(calc.year, calc.month)
         pd   == Cardinality(DOMAIN calc.dates)
         ps   == Cardinality({d \in sats : Pad2(d) \in DOMAIN calc.dates})
         f    == FlagsOf(calc.stats)
     IN /\ calc.stats.totalDays = DaysInMonthRef(calc.year, calc.month)
        /\ calc.stats.presentDays = pd
        /\ calc.stats.totalSaturdays = Cardinality(sats)
        /\ calc.stats.presentSaturdays = ps
        /\ f.meetsAllSaturdays = (ps = Cardinality(sats))
        /\ f.meets8Days2Sats = (pd >= 8 /\ ps >= 2)
        /\ f.meets10Weekdays = (pd >= 10)

\* eight days with two Saturdays in a leap February, short of ten days and of
\* all the Saturdays
C9_Witness ==
  /\ calc.phase = "done"
  /\ calc.year = 2024 /\ calc.month = 1
  /\ calc.stats.totalDays = 29
  /\ calc.stats.presentDays = 8
  /\ calc.stats.presentSaturdays = 2
  /\ FlagsOf(calc.stats).meets8Days2Sats
  /\ ~FlagsOf(calc.stats).meets10Weekdays
  /\ ~FlagsOf(calc.stats).meetsAllSaturdays

\* a statistics value carries isCompliant, the OR of its three rules
CarriesIsCompliant(stats) ==
  LET f == FlagsOf(stats)
  IN /\ "isCompliant" \in DOMAIN f
     /\ f.isCompliant = (f.meetsAllSaturdays \/ f.meets8Days2Sats \/ f.meets10Weekdays)

\* C10 as claimed: the stats of every document, of every answer of the
\* presence routes and of every entry of the overview carry isCompliant, true
\* iff one of the three rules holds.
C10_IsCompliantEverywhere ==
  /\ \A k \in DOMAIN store : CarriesIsCompliant(store[k].stats)
  /\ ( last.op \in {"markDay", "getMonth", "getStats"} /\ "stats" \in DOMAIN last.body )
     => CarriesIsCompliant(last.body.stats)
  /\ ov.phase = "fanout"
     => \A i \in DOMAIN ov.results :
          ov.results[i] # Pending => CarriesIsCompliant(ov.results[i].stats)
  /\ OverviewAnswered
     => \A i \in DOMAIN last.body.users : CarriesIsCompliant(last.body.users[i].stats)

\* the id of the document of a user, a year and a 1-based month
RefKey(u, y, mm) == u \o "_" \o ToString(y) \o "_" \o TwoDigits(mm)

\* the dates of the days a store holds under an id
RefDates(st, k, y, mm) ==
  { ToString(y) \o "-" \o TwoDigits(mm) \o "-" \o d :
      d \in (IF k \in DOMAIN st THEN DOMAIN st[k].dates ELSE {}) }

\* users, years and 0-based months
KeyTriples == RosterUsers \X {2023, 2024} \X (0..11)

\* C15: a day marked by POST / for YYYY-MM-DD is in the document
\* "{userId}_{YYYY}_{MM}", which carries that user, year and 0-based month;
\* GET /month with the 0-based month MM-1 lists the days of that document, and
\* the overview with the 1-based month MM reads it for each user; every
\* document is stored under the id of its own user, year and month, and
\* different users, years or months have different ids.
C15_MonthIndex ==
  /\ ( last.op = "markDay" /\ last.status = 201 /\ last.date.month \in 1..12 )
     => LET k == RefKey(last.user, last.date.year, last.date.month)
        IN /\ k \in DOMAIN store
           /\ DayStrOf(last.date) \in DOMAIN store[k].dates
           /\ store[k].userId = last.user
           /\ store[k].year = last.date.year
           /\ store[k].month = last.date.month - 1
           /\ \A t1 \in KeyTriples, t2 \in KeyTriples :
                t1 # t2 => getMonthlyDocId(t1[1], t1[2], t1[3]) # getMonthlyDocId(t2[1], t2[2], t2[3])
  /\ ( last.op = "getMonth" /\ last.status = 200 )
     => LET k == RefKey(last.user, last.year.value, last.month.value + 1)
            recs == last.body.presenceRecords
        IN /\ {recs[i].date : i \in DOMAIN recs}
                = RefDates(last.pre, k, last.year.value, last.month.value + 1)
           /\ last.body.count = Cardinality(RefDates(last.pre, k, last.year.value, last.month.value + 1))
  /\ ( ov.phase = "fanout" /\ last.month.value \in 1..12 )
     => \A i \in DOMAIN ov.results :
          ( ov.results[i] # Pending /\ i \notin ov.failed )
          => LET k == RefKey(ov.users[i].userId, last.year.value, last.month.value)
             IN /\ ov.results[i].hasData = (k \in DOMAIN store)
                /\ ov.results[i].presentDates
                     = RefDates(store, k, last.year.value, last.month.value)
  /\ \A k \in DOMAIN store :
       store[k].month \in 0..11
       => k = RefKey(store[k].userId, store[k].year, store[k].month + 1)

\* the overview of February 2024, asked with month 2, has read the 3rd that
\* POST / stored for 2024-02-03 and GET /month lists for month 1
C15_Witness ==
  /\ ov.phase = "fanout"
  /\ last.year = Num(2024) /\ last.month = Num(2)
  /\ \E i \in DOMAIN ov.results :
       /\ ov.results[i] # Pending
       /\ i \notin ov.failed
       /\ ov.results[i].presentDates = {"2024-02-03"}
       /\ RefKey(ov.users[i].userId, 2024, 2) \in DOMAIN store

\* C16 as claimed: asked by the core team about a user the directory knows,
\* with a working store, both the route and the service answer with success,
\* the user, the days the store holds for that user's month (none when there
\* is no document) and the stats of those days.
C16_UserMonthSucceeds ==
  ( last.op \in {"getUserMonth", "getUserMonthlyPresence"}
    /\ Directory[last.user].userType = "core"
    /\ last.fault = "none" )
  => LET k    == RefKey(last.target, last.year.value, last.month.value)
         days == RefDates(last.pre, k, last.year.value, last.month.value)
         recs == last.body.presenceRecords
     IN /\ last.status = 200
        /\ last.body.user.userId = last.target
        /\ {recs[i].date : i \in DOMAIN recs} = days
        /\ last.body.totalRecords = Cardinality(days)
        /\ last.body.stats.presentDays = Cardinality(days)
        /\ last.body.stats.totalDays = DaysInMonthRef(last.year.value, last.month.value - 1)

\* C17: in every state, requests overlapping or not, the stats of each stored
\* document are those calculateMonthlyStats gives for the document's year,
\* month and dates: the number of its keys, and the Saturdays among them.
C17_StatsNeverStale ==
  \A k \in DOMAIN store :
    LET doc  == store[k]
        sats == SaturdaysRef(doc.year, doc.month)
    IN /\ doc.stats = calculateMonthlyStats(doc.year, doc.month, doc.dates)
       /\ doc.stats.presentDays = Cardinality(DOMAIN doc.dates)
       /\ doc.stats.presentSaturdays
            = Cardinality({d \in sats : TwoDigits(d) \in DOMAIN doc.dates})

\* a POST / that read the month before another day was stored has replaced
\* the document: the other day is gone and the stats count one day
C17_Witness ==
  /\ last.op = "markDay" /\ last.status = 201
  /\ DocIdOf(last.user, last.date) \in DOMAIN last.pre
  /\ DOMAIN last.pre[DocIdOf(last.user, last.date)].dates = {"05"}
  /\ DOMAIN store[DocIdOf(last.user, last.date)].dates = {"03"}
  /\ store[DocIdOf(last.user, last.date)].stats.presentDays = 1
  /\ store[DocIdOf(last.user, last.date)].stats.presentSaturdays = 1

\* C18: in every state, requests overlapping or not, a document holds at most
\* one entry for a day of the month, however the day was spelled in the
\* requests, and its stats count each day once.
C18_OneEntryPerDay ==
  \A k \in DOMAIN store :
    /\ \A d \in 1..31 :
         Cardinality(DOMAIN store[k].dates \cap {ToString(d), TwoDigits(d)}) <= 1
    /\ store[k].stats.presentDays
         = Cardinality({d \in 1..31 : DOMAIN store[k].dates \cap {ToString(d), TwoDigits(d)} # {}})

\* a POST / and a POST /activity-participation for the same day overlapped,
\* both were answered 201, and the document holds one entry for the day
C18_Witness ==
  /\ last.op = "markFromActivity" /\ last.status = 201
  /\ last.after.op = "markDay"
  /\ last.after.user = last.user
  /\ DayStrOf(last.after.date) = DayStrOf(last.date)
  /\ DayMarked(last.pre, last.user, last.date)
  /\ DOMAIN store[DocIdOf(last.user, last.date)].dates = {DayStrOf(last.date)}
  /\ store[DocIdOf(last.user, last.date)].dates[DayStrOf(last.date)].type = "activity"

\* C19: the overview goes on to its reductions only when the read of every
\* roster user has answered, with a document or with an error; an answered
\* overview has one result per roster user, every read among the answered
\* ones, and its counts are taken over all of them.
C19_FanInBarrier ==
  /\ ( ov.phase = "fanout" /\ settled(ov.results) )
     => /\ Len(ov.order) = Len(ov.users)
        /\ {ov.order[j] : j \in DOMAIN ov.order} = DOMAIN ov.users
  /\ OverviewAnswered
     => LET n == Len(last.body.roster)
        IN /\ Len(last.body.order) = n
           /\ {last.body.order[j] : j \in 1..n} = 1..n
           /\ \A i \in 1..n : last.body.users[i] # Pending
           /\ last.body.overallStats.totalUsers = n
           /\ last.body.overallStats.usersWithErrors = Cardinality(last.body.failed)
           /\ last.body.overallStats.usersWithData
                = Cardinality({i \in 1..n :
                                 /\ i \notin last.body.failed
                                 /\ RefKey(last.body.roster[i].userId, last.body.year,
                                           last.body.month) \in DOMAIN store})

\* the first read to answer threw while two others were outstanding, and the
\* overview was answered after all three
C19_Witness ==
  /\ OverviewAnswered
  /\ Len(last.body.roster) = 3
  /\ Len(last.body.order) = 3
  /\ last.body.order[1] \in last.body.failed
  /\ last.body.overallStats.usersWithData >= 1

\* the fields of a stored document
DocFields ==
  {"userId", "username", "userType", "year", "month", "dates", "createdAt", "stats", "updatedAt"}

\* C20: a POST / answered 201, a DELETE answered 200 and a POST
\* /activity-participation answered 201 have called docRef.get() once and
\* docRef.set() once; the store differs from the one they found in the
\* document of their user, year and month only; that document is whole, holds
\* the dates found with the day added or removed, carries the time of the
\* call as updatedAt and, when it existed, the createdAt it had (a new one
\* is created at the time of the call).  The other answers wrote nothing.
C20_ReadModifyWrite ==
  last.op \in {"markDay", "unmarkDay", "markFromActivity"}
  => LET docId  == DocIdOf(last.user, last.date)
         dayStr == DayStrOf(last.date)
         found  == IF docId \in DOMAIN last.pre THEN DOMAIN last.pre[docId].dates ELSE {}
     IN IF last.status = 201 \/ (last.op = "unmarkDay" /\ last.status = 200)
        THEN /\ last.reads = 1 /\ last.writes = 1
             /\ DOMAIN store = DOMAIN last.pre \cup {docId}
             /\ \A k \in DOMAIN last.pre : k # docId => store[k] = last.pre[k]
             /\ DOMAIN store[docId] = DocFields
             /\ DOMAIN store[docId].dates
                  = (IF last.op = "unmarkDay" THEN found \ {dayStr} ELSE found \cup {dayStr})
             /\ store[docId].updatedAt = clock - 1
             /\ IF docId \in DOMAIN last.pre
                THEN /\ store[docId].createdAt = last.pre[docId].createdAt
                     /\ store[docId].updatedAt > last.pre[docId].updatedAt
                ELSE store[docId].createdAt = clock - 1
        ELSE last.writes = 0 /\ last.reads <= 1 /\ store = last.pre

\* a day is removed from a document created two writes earlier, while the
\* document of another user stays as it was
C20_Witness ==
  /\ last.op = "unmarkDay" /\ last.status = 200
  /\ store[DocIdOf(last.user, last.date)].createdAt = 1
  /\ store[DocIdOf(last.user, last.date)].updatedAt = 3
  /\ \E k \in DOMAIN store :
       k # DocIdOf(last.user, last.date) /\ store[k] = last.pre[k]

\* what C21 asks of a state: a DELETE answered 200 leaves the document in
\* the store, with no dates when it removed the only one, and the overview
\* reports every user whose document exists as having data, whatever its
\* dates
RecordKeptInState ==
  /\ ( last.op = "unmarkDay" /\ last.status = 200 )
     => LET docId == DocIdOf(last.user, last.date)
        IN /\ docId \in DOMAIN store
           /\ DOMAIN last.pre[docId].dates = {DayStrOf(last.date)}
              => store[docId].dates = NoDates
  /\ ov.phase = "fanout"
     => \A i \in DOMAIN ov.results :
          ( ov.results[i] # Pending /\ i \notin ov.failed )
          => ov.results[i].hasData
               = (RefKey(ov.users[i].userId, ov.year, ov.month + 1) \in DOMAIN store)

\* C21: no step removes a document from the store, so a document that exists
\* exists in every later state; unmarking the last day leaves the document
\* with an empty dates map, which the overview reports with hasData true.
C21_RecordKept ==
  /\ []RecordKeptInState
  /\ [][\A k \in DOMAIN store : k \in DOMAIN store']_vars

\* the overview has read a document whose only day was unmarked
C21_Witness ==
  /\ ov.phase = "fanout"
  /\ prior.op = "unmarkDay"
  /\ \E i \in DOMAIN ov.results :
       /\ ov.results[i] # Pending
       /\ i \notin ov.failed
       /\ ov.users[i].userId = prior.user
       /\ ov.results[i].hasData
       /\ ov.results[i].presentDates = {}
       /\ store[RefKey(prior.user, ov.year, ov.month + 1)].dates = NoDates

\* C22: an overview that has started its fan-out eventually answers, also
\* when a per-user fetch never answers (the fetch is cut off by a timeout
\* and counted as failed).
C22_OverviewReturns == (ov.phase = "fanout") ~> (ov.phase = "idle")

\* the per-user fetches that were issued and have not answered
InFlight == {i \in DOMAIN ov.results : ov.results[i] = Pending}

\* a limit that does not grow with the roster is below the largest roster
FetchLimit == Cardinality(RosterUsers) - 1

\* C23: the number of per-user fetches in flight stays within a fixed limit
\* that does not grow with the roster.
C23_BoundedFanOut ==
  ov.phase = "fanout" => Cardinality(InFlight) <= FetchLimit

\* the status of an upstream error
IsUpstreamError(status) == status >= 500

\* C24: a failure of a collaborator is swallowed in the per-user fetch of the
\* overview and nowhere else: an overview whose roster lookup failed answers
\* with an upstream error instead of an aggregate over an empty roster, and
\* a read of one user's month whose directory or store lookup failed answers
\* with an upstream error instead of NotFound.
C24_FailuresSurface ==
  /\ ( last.op = "overview" /\ last.fault = "roster" /\ last.status # 0 )
     => IsUpstreamError(last.status)
  /\ ( last.op \in {"getUserMonth", "getUserMonthlyPresence"}
       /\ Directory[last.user].userType = "core"
       /\ last.fault \in {"auth", "get"} )
     => IsUpstreamError(last.status)

\* C27: after any sequence of writes the routes accepted, the stats of every
\* document satisfy 0 <= presentSaturdays <= presentDays <= totalDays and
\* presentSaturdays <= totalSaturdays, and every key of dates is a day
\* 01..daysInMonth(year, month) of the document's month.
C27_StatsInRange ==
  \A docId \in DOMAIN store :
    LET doc == store[docId]
    IN /\ 0 <= doc.stats.presentSaturdays
       /\ doc.stats.presentSaturdays <= doc.stats.presentDays
       /\ doc.stats.presentDays <= doc.stats.totalDays
       /\ doc.stats.presentSaturdays <= doc.stats.totalSaturdays
       /\ \A key \in DOMAIN doc.dates :
            \E d \in 1..daysInMonth(doc.year, doc.month) : key = TwoDigits(d)

\* C28: when a POST / has answered 201, the document holds the day it marked
\* and every day an earlier successful POST / had stored in it (the entries
\* of type manual), with stats counting them all, also when the two requests
\* overlapped between their read and their write.
C28_NoLostUpdate ==
  ( last.op = "markDay" /\ last.status = 201 )
  => LET docId == DocIdOf(last.user, last.date)
         doc   == store[docId]
         kept  == IF docId \in DOMAIN last.pre
                  THEN {day \in DOMAIN last.pre[docId].dates :
                          last.pre[docId].dates[day].type = "manual"}
                  ELSE {}
     IN /\ kept \cup {DayStrOf(last.date)} \subseteq DOMAIN doc.dates
        /\ doc.stats.presentDays >= Cardinality(kept \cup {DayStrOf(last.date)})

\* the rule flags of the document a request was about, FALSE everywhere
\* when the store holds no such document
FlagsIn(st, docId) ==
  IF docId \in DOMAIN st
  THEN st[docId].stats.compliance
  ELSE [ meetsAllSaturdays |-> FALSE, meets8Days2Sats |-> FALSE,
         meets10Weekdays |-> FALSE, isCompliant |-> FALSE ]

\* the four flags
FlagNames == {"meetsAllSaturdays", "meets8Days2Sats", "meets10Weekdays", "isCompliant"}

C30_OverallStatsWellDefined ==
  OverviewAnswered
  => LET o      == last.body.overallStats
         data   == last.body.users
         failed == {i \in DOMAIN data : HasError(data[i])}
         ok     == DOMAIN data \ failed
     IN /\ ~o.averagePresentDays.isNaN
        /\ o.averagePresentDays.den > 0
        /\ 0 <= o.averagePresentDays.num
        /\ o.averagePresentDays.num <= 31 * o.averagePresentDays.den
        /\ o.usersWithData + o.usersWithErrors <= o.totalUsers
        /\ o.usersMetAllSaturdays = Cardinality({i \in ok : data[i].stats.meetsAllSaturdays})
        /\ o.usersMet8Days2Sats = Cardinality({i \in ok : data[i].stats.meets8Days2Sats})
        /\ o.usersMet10Weekdays = Cardinality({i \in ok : data[i].stats.meets10Weekdays})

\* the kinds of the data model
Kinds == {"manual", "activity"}

\* C25: every stored entry has kind manual or activity: markDay never
\* persists another value sent by the caller, and markFromActivity always
\* persists activity.
C25_KindsEnumerated ==
  /\ \A docId \in DOMAIN store : \A day \in DOMAIN store[docId].dates :
       store[docId].dates[day].type \in Kinds
  /\ ( last.op = "markFromActivity" /\ last.status = 201 )
     => store[DocIdOf(last.user, last.date)].dates[activityDayStr(last.date)].type = "activity"

\* the fields C26 compares, read from the stats of either calculator (the
\* engine's copy nests the flags under compliance)
FlatStats(stats) ==
  LET flags == IF "compliance" \in DOMAIN stats THEN stats.compliance ELSE stats
  IN [ totalDays         |-> stats.totalDays,
       presentDays       |-> stats.presentDays,
       totalSaturdays    |-> stats.totalSaturdays,
       presentSaturdays  |-> stats.presentSaturdays,
       meetsAllSaturdays |-> flags.meetsAllSaturdays,
       meets8Days2Sats   |-> flags.meets8Days2Sats,
       meets10Weekdays   |-> flags.meets10Weekdays,
       hasIsCompliant    |-> "isCompliant" \in DOMAIN flags,
       isCompliant       |-> IF "isCompliant" \in DOMAIN flags
                             THEN flags.isCompliant ELSE FALSE ]

\* C26: for every year, month and dates map, the stats of
\* calculateUserMonthlyStats agree field by field, isCompliant included,
\* with the stats of calculateMonthlyStats.
C26_NoDrift ==
  calc.phase = "done"
  => LET engine  == FlatStats(calculateMonthlyStats(calc.year, calc.month, calc.dates))
         inHouse == FlatStats(calculateUserMonthlyStats(calc.year, calc.month, calc.dates))
     IN /\ FlatStats(calc.stats) \in {engine, inHouse}
        /\ inHouse.hasIsCompliant
        /\ engine = inHouse

\* a date that matches the pattern and names no day of the calendar
OffCalendar(date) ==
  /\ date.matches
  /\ \/ date.month \notin 1..12
     \/ date.day \notin 1..DaysInMonthRef(date.year, date.month - 1)

\* C14 as claimed: POST /, DELETE and POST /activity-participation answer a
\* date off the calendar with 400 before any call to the store; GET /month
\* answers a non-numeric year or month or a month outside 0..11 the same way,
\* and the overview a month outside 1..12.
C14_ValidationFirst ==
  /\ ( last.op \in {"markDay", "unmarkDay", "markFromActivity"} /\ OffCalendar(last.date) )
     => /\ last.status = 400
        /\ last.reads = 0 /\ last.writes = 0
        /\ store = last.pre
  /\ ( last.op = "getMonth"
       /\ (last.year.isNaN \/ last.month.isNaN \/ last.month.value \notin 0..11) )
     => (last.status = 400 /\ last.reads = 0)
  /\ ( last.op = "overview" /\ Directory[last.user].userType = "core"
       /\ (last.year.isNaN \/ last.month.isNaN \/ last.month.value \notin 1..12) )
     => (last.status = 400 /\ ov.phase = "idle")

(***************************************************************************)
(* The calculators, case by case.                                          *)
(***************************************************************************)
\* the day a two-digit day string spells
DayOfKey(s) == CHOOSE d \in 1..31 : TwoDigits(d) = s

\* the day strings of the valid days of a month
ValidDayKeys(y, m) == {TwoDigits(d) : d \in 1..DaysInMonthRef(y, m)}

\* C11: for every year and every month 0..11, both calculators count 4 or 5
\* Saturdays, and the list calculateMonthlyStats returns has that length, is
\* made of two-digit day strings of valid days of the month and is strictly
\* ascending.
C11_SaturdayEnumeration ==
  calc.phase = "done"
  => /\ calc.stats.totalSaturdays \in {4, 5}
     /\ calc.by = "calculateMonthlyStats"
        => LET sats == calc.stats.saturdays
           IN /\ Len(sats) = calc.stats.totalSaturdays
              /\ \A i \in 1..Len(sats) : sats[i] \in ValidDayKeys(calc.year, calc.month)
              /\ \A i \in 1..(Len(sats) - 1) : DayOfKey(sats[i]) < DayOfKey(sats[i + 1])

\* the five Saturdays of March 2024
C11_Witness ==
  /\ calc.phase = "done"
  /\ calc.by = "calculateMonthlyStats"
  /\ calc.year = 2024 /\ calc.month = 2
  /\ calc.stats.saturdays = <<"02", "09", "16", "23", "30">>

\* C12: on an empty dates map both calculators give no present day, no
\* present Saturday and none of the three rules, calculateMonthlyStats gives
\* isCompliant false, and the month has Saturdays, so that "all Saturdays" is
\* never met by 0 of 0.
C12_EmptyEntries ==
  ( calc.phase = "done" /\ DOMAIN calc.dates = {} )
  => LET f == FlagsOf(calc.stats)
     IN /\ calc.stats.presentDays = 0
        /\ calc.stats.presentSaturdays = 0
        /\ calc.stats.totalSaturdays > 0
        /\ ~f.meetsAllSaturdays /\ ~f.meets8Days2Sats /\ ~f.meets10Weekdays
        /\ calc.by = "calculateMonthlyStats" => ~f.isCompliant

\* no entries in a month of four Saturdays
C12_Witness ==
  /\ calc.phase = "done"
  /\ calc.by = "calculateMonthlyStats"
  /\ DOMAIN calc.dates = {}
  /\ calc.stats.totalSaturdays = 4
  /\ ~calc.stats.compliance.isCompliant

\* C13: when the keys of dates are exactly the Saturdays of the month, both
\* calculators count every Saturday present and meet "all Saturdays" with
\* fewer than 8 present days, and calculateMonthlyStats gives isCompliant
\* true; in February 2024 the keys are 03, 10, 17, 24 and both counts are 4.
C13_AllSaturdays ==
  ( calc.phase = "done"
    /\ DOMAIN calc.dates = {TwoDigits(d) : d \in SaturdaysRef(calc.year, calc.month)} )
  => LET f == FlagsOf(calc.stats)
     IN /\ calc.stats.presentSaturdays = calc.stats.totalSaturdays
        /\ calc.stats.presentDays = calc.stats.totalSaturdays
        /\ calc.stats.presentDays < 8
        /\ f.meetsAllSaturdays /\ ~f.meets8Days2Sats /\ ~f.meets10Weekdays
        /\ calc.by = "calculateMonthlyStats" => f.isCompliant
        /\ (calc.year = 2024 /\ calc.month = 1)
           => /\ DOMAIN calc.dates = {"03", "10", "17", "24"}
              /\ calc.stats.totalSaturdays = 4
              /\ calc.stats.presentSaturdays = 4

\* the four Saturdays of February 2024
C13_Witness ==
  /\ calc.phase = "done"
  /\ calc.by = "calculateMonthlyStats"
  /\ calc.year = 2024 /\ calc.month = 1
  /\ DOMAIN calc.dates = {"03", "10", "17", "24"}
  /\ calc.stats.presentDays = 4
  /\ calc.stats.compliance.isCompliant

====
